---- MODULE Spec2Model ----
(***************************************************************************)
(* Lifecycle supervision of an iroh node, iroh/src/commands/start.rs:      *)
(* StartArgs::run_with_command, run_with_command_inner, start_node and     *)
(* make_rpc_endpoint.  Two processes run sessions against one data         *)
(* directory (one persisted RpcStatus record) and one loopback port space. *)
(***************************************************************************)
EXTENDS Integers, FiniteSets, Sequences, TLC

\* The processes that run sessions against the data directory.
Sess == {"a", "b"}

\* Loopback ports are 1..MaxPort.
MaxPort == 2
Ports == 1..MaxPort

\* The ports the OS may hand out for a bind to port 0: any free one, the
\* requested port included once its holder has let go of it.
EphemeralPorts == Ports

\* The values --rpc-port takes in the model.
RpcPorts == {1}

\* RpcStatus::Stopped (or no record); RpcStatus::Running(p) is the port p.
Stopped == 0

SingleCommand == "SingleCommand"
UntilStopped == "UntilStopped"
RunType == {SingleCommand, UntilStopped}

VARIABLES
    status,   \* the persisted RpcStatus record of the data directory
    ext,      \* loopback ports held by programs other than the sessions
    rootOk,   \* iroh_data_root() resolves in the processes' environment
    ses       \* per process: the state of its current session

vars == <<status, ext, rootOk, ses>>

\* The state of a process before run_with_command is called.
Idle ==
    [ pc        |-> "idle",    \* position in run_with_command / start_node
      run_type  |-> SingleCommand,   \* the caller's, once it is read
      rpc_port  |-> 1,
      res       |-> "none",    \* `res` of run_with_command (line 89)
      ret       |-> "none",    \* the value run_with_command returned
      bound     |-> 0,         \* port of the open rpc endpoint, 0: none
      node      |-> "none",    \* none | running | ok | err (terminated)
      shutdown  |-> FALSE,     \* node.shutdown() has been called
      cmd       |-> "none",    \* command_task: none | spawned | running |
                               \*   pending | Ok | Err | Panic | aborting |
                               \*   aborted
      calls     |-> 0,         \* invocations of the caller's command
      cmdOut    |-> "none",    \* what command(client) returned
      intr      |-> "none",    \* ctrl-c: none | race (delivered while
                               \*   select! was pending) | late
      branch    |-> 0,         \* the select! branch that fired
      ops       |-> << >>,     \* the calls that branch made, in order
      already   |-> 0,         \* port named by the already-running error
      clears    |-> 0,         \* calls of RpcStatus::clear
      clearRes  |-> "none",    \* what clear returned: none | ok | fail
      \* what start_node did, until it has returned Ok
      binds     |-> 0,         \* calls of quinn::Endpoint::server
      asked     |-> << >>,     \* the ports those calls asked for
      bindErr   |-> "none",    \* outcome of the first bind
      prefHeld  |-> FALSE,     \* rpc_port still in use at the second bind
      stored    |-> 0,         \* the port this launch stored
      dirs      |-> FALSE ]    \* create_dir_all was called

Init ==
    /\ status = Stopped
    /\ ext \in SUBSET RpcPorts
    /\ rootOk \in BOOLEAN
    /\ ses = [s \in Sess |-> Idle]

Set(s, r) == ses' = [ses EXCEPT ![s] = r]

\* Ports some endpoint holds.
InUse == ext \cup ({ses[s].bound : s \in Sess} \ {0})

\* start_node returns Err(err): `?` hands it to run_with_command as `res`.
\* An endpoint bound by then is dropped with the call's locals.
LaunchFailed(r, err) ==
    [r EXCEPT !.pc = "cleanup", !.res = err, !.bound = 0]

\* run_with_command is called; the command line gives the rpc port.
Start(s) ==
    /\ ses[s].pc = "idle"
    /\ \E p \in RpcPorts :
          Set(s, [ses[s] EXCEPT !.pc = "config", !.rpc_port = p])
    /\ UNCHANGED <<status, ext, rootOk>>

\* run_with_command_inner spawning command_task before it calls start_node.
ConfigSpawnsTask(s) ==
    /\ ses[s].pc = "config"
    /\ \/ Set(s, [ses[s] EXCEPT !.pc = "load", !.cmd = "spawned"])
       \/ Set(s, LaunchFailed(ses[s], "ErrConfig"))
    /\ UNCHANGED <<status, ext, rootOk>>

\* run_with_command_inner up to start_node: config.derp_map()?
Config(s) ==
    /\ ses[s].pc = "config"
    /\ \/ Set(s, [ses[s] EXCEPT !.pc = "load"])
       \/ Set(s, LaunchFailed(ses[s], "ErrConfig"))
    /\ UNCHANGED <<status, ext, rootOk>>

\* RpcStatus::load: the persisted record; absent reads as Stopped.
RpcStatusLoad == status

\* start_node without the check of the loaded status.
LoadUnchecked(s) ==
    /\ ses[s].pc = "load"
    /\ IF ~rootOk
         THEN Set(s, LaunchFailed(ses[s], "ErrDataRoot"))
         ELSE Set(s, [ses[s] EXCEPT !.pc = "dirs"])
    /\ UNCHANGED <<status, ext, rootOk>>

\* start_node: the check of the persisted status.
Load(s) ==
    /\ ses[s].pc = "load"
    /\ IF ~rootOk
         THEN Set(s, LaunchFailed(ses[s], "ErrDataRoot"))
         ELSE IF RpcStatusLoad # Stopped
                THEN Set(s, [LaunchFailed(ses[s], "AlreadyRunning")
                                EXCEPT !.already = RpcStatusLoad])
                ELSE Set(s, [ses[s] EXCEPT !.pc = "dirs"])
    /\ UNCHANGED <<status, ext, rootOk>>

\* start_node: the store directories and the two stores.
Dirs(s) ==
    /\ ses[s].pc = "dirs"
    /\ \/ Set(s, [ses[s] EXCEPT !.pc = "key", !.dirs = TRUE])
       \/ \E made \in BOOLEAN :
             Set(s, [LaunchFailed(ses[s], "ErrStorage") EXCEPT !.dirs = made])
    /\ UNCHANGED <<status, ext, rootOk>>

\* start_node storing the status right after the secret key, before any
\* bind.
KeyThenStore(s) ==
    /\ ses[s].pc = "key"
    /\ \/ Set(s, [ses[s] EXCEPT !.pc = "store"])
       \/ Set(s, LaunchFailed(ses[s], "ErrIdentity"))
    /\ UNCHANGED <<status, ext, rootOk>>

\* start_node: get_secret_key.
Key(s) ==
    /\ ses[s].pc = "key"
    /\ \/ Set(s, [ses[s] EXCEPT !.pc = "bind"])
       \/ Set(s, LaunchFailed(ses[s], "ErrIdentity"))
    /\ UNCHANGED <<status, ext, rootOk>>

\* make_rpc_endpoint retrying on port 0 after any bind error.
RetryOnAnyError(err) == TRUE

\* make_rpc_endpoint: is the bind repeated on port 0 after this error?
RetryOnPortZero(err) == err = "inuse"

\* make_rpc_endpoint: the server config and the bind of rpc_port.
Bind(s) ==
    /\ ses[s].pc = "bind"
    /\ \/ Set(s, LaunchFailed(ses[s], "ErrServerConfig"))
       \/ /\ ses[s].rpc_port \notin InUse
          /\ Set(s, [ses[s] EXCEPT !.pc = "store", !.binds = 1,
                                   !.asked = <<ses[s].rpc_port>>,
                                   !.bindErr = "ok",
                                   !.bound = ses[s].rpc_port])
       \/ \E err \in {"inuse", "other"} :
             /\ err = "inuse" => ses[s].rpc_port \in InUse
             /\ IF RetryOnPortZero(err)
                  THEN Set(s, [ses[s] EXCEPT !.pc = "bind0", !.binds = 1,
                                             !.asked = <<ses[s].rpc_port>>,
                                             !.bindErr = err])
                  ELSE Set(s, [LaunchFailed(ses[s], "ErrBind")
                                  EXCEPT !.binds = 1,
                                         !.asked = <<ses[s].rpc_port>>,
                                         !.bindErr = err])
    /\ UNCHANGED <<status, ext, rootOk>>

\* make_rpc_endpoint binding port 0 again whenever that bind fails.
BindPortZeroRetries(s) ==
    /\ ses[s].pc = "bind0"
    /\ LET r == [ses[s] EXCEPT !.binds = @ + 1,
                               !.asked = Append(ses[s].asked, 0),
                               !.prefHeld = ses[s].rpc_port \in InUse]
       IN  \/ \E e \in EphemeralPorts \ InUse :
                 Set(s, [r EXCEPT !.pc = "store", !.bound = e])
           \/ Set(s, r)
    /\ UNCHANGED <<status, ext, rootOk>>

\* make_rpc_endpoint: the second bind, of port 0.
BindPortZero(s) ==
    /\ ses[s].pc = "bind0"
    /\ LET r == [ses[s] EXCEPT !.binds = 2,
                               !.asked = Append(ses[s].asked, 0),
                               !.prefHeld = ses[s].rpc_port \in InUse]
       IN  \/ \E e \in EphemeralPorts \ InUse :
                 Set(s, [r EXCEPT !.pc = "store", !.bound = e])
           \/ Set(s, LaunchFailed(r, "ErrBindPortZero"))
    /\ UNCHANGED <<status, ext, rootOk>>

\* make_rpc_endpoint storing the requested port, not the bound one.
requested_rpc_port(r) == r.rpc_port

\* make_rpc_endpoint: the port handed to RpcStatus::store.
actual_rpc_port(r) == r.bound

\* RpcStatus::store: the record becomes Running(port).
RpcStatusStore(port) == status' = port

\* make_rpc_endpoint: local_addr, the QuinnServerEndpoint, the store.
Store(s) ==
    /\ ses[s].pc = "store"
    /\ \/ /\ RpcStatusStore(actual_rpc_port(ses[s]))
          /\ Set(s, [ses[s] EXCEPT !.pc = "spawn",
                                   !.stored = actual_rpc_port(ses[s])])
       \/ /\ \E err \in {"ErrEndpoint", "ErrStore"} :
                Set(s, LaunchFailed(ses[s], err))
          /\ UNCHANGED status
    /\ UNCHANGED <<ext, rootOk>>

\* start_node: Node::builder(..).spawn(); then run_with_command_inner
\* spawns command_task, which captures the caller's run_type (its first
\* use), and enters select!.
Spawn(s) ==
    /\ ses[s].pc = "spawn"
    /\ \/ \E rt \in RunType :
          Set(s, [ses[s] EXCEPT !.pc = "race", !.node = "running",
                                !.run_type = rt,
                                !.cmd = "spawned",
                                !.binds = 0, !.asked = << >>,
                                !.bindErr = "none",
                                !.prefHeld = FALSE, !.stored = 0,
                                !.dirs = FALSE])
       \/ Set(s, LaunchFailed(ses[s], "ErrNode"))
    /\ UNCHANGED <<status, ext, rootOk>>

\* command_task without the pending() of the UntilStopped mode.
command_task_completing(run_type, out) == out

\* command_task: the state the task reaches when command(client) returns
\* `out` (Ok, Err, or Panic for a task that panicked).
command_task(run_type, out) ==
    IF out = "Ok" /\ run_type = UntilStopped THEN "pending" ELSE out

\* A task in one of these states has completed: its JoinHandle is ready.
Completed == {"Ok", "Err", "Panic"}

\* The node future has completed.
Terminated == {"ok", "err"}

\* The pinned worker polls command_task for the first time: the caller's
\* command is invoked.
CommandStarts(s) ==
    /\ ses[s].cmd = "spawned"
    /\ Set(s, [ses[s] EXCEPT !.cmd = "running", !.calls = @ + 1])
    /\ UNCHANGED <<status, ext, rootOk>>

\* The caller's command returns, or its task panics.
CommandReturns(s) ==
    /\ ses[s].cmd = "running"
    /\ \E out \in Completed :
          Set(s, [ses[s] EXCEPT !.cmd = command_task(ses[s].run_type, out),
                                !.cmdOut = out])
    /\ UNCHANGED <<status, ext, rootOk>>

\* The node future completes, on its own or after shutdown(); its endpoint
\* closes.
NodeTerminates(s) ==
    /\ ses[s].node = "running"
    /\ \E r \in Terminated :
          Set(s, [ses[s] EXCEPT !.node = r, !.bound = 0])
    /\ UNCHANGED <<status, ext, rootOk>>

\* Ctrl-c reaches the process while select! is pending, or later: while
\* the command branch awaits the node, or while clear is awaited.
Interrupt(s) ==
    /\ ses[s].intr = "none"
    /\ \/ ses[s].pc \in {"race", "cmd_wait"}
       \/ ses[s].pc = "cleanup" /\ ses[s].branch # 0
    /\ Set(s, [ses[s] EXCEPT !.intr = IF ses[s].pc = "race" THEN "race"
                                                           ELSE "late"])
    /\ UNCHANGED <<status, ext, rootOk>>

\* The sources of select! that are ready when it is polled.
ReadySources(r) ==
    {x \in {"ctrl_c"} : r.intr = "race"}
      \cup {x \in {"command_task"} : r.cmd \in Completed}
      \cup {x \in {"node"} : r.node \in Terminated}

\* select! polling the command task before ctrl_c.
SelectCommandFirst(ready) ==
    IF "command_task" \in ready THEN 2
    ELSE IF "ctrl_c" \in ready THEN 1
    ELSE IF "node" \in ready THEN 3
    ELSE 0

\* select! polling the node before the command task.
SelectNodeFirst(ready) ==
    IF "ctrl_c" \in ready THEN 1
    ELSE IF "node" \in ready THEN 3
    ELSE IF "command_task" \in ready THEN 2
    ELSE 0

\* select! { biased; .. }: the branches are polled in the order written.
SelectBiased(ready) ==
    IF "ctrl_c" \in ready THEN 1
    ELSE IF "command_task" \in ready THEN 2
    ELSE IF "node" \in ready THEN 3
    ELSE 0

\* No abort: the task is left as it is.
AbortNone(c) == c

\* JoinHandle::abort: cancellation is requested and the call returns; a
\* completed task keeps its result.
Abort(c) == IF c \in {"spawned", "running", "pending"} THEN "aborting" ELSE c

\* A task whose abort was requested is dropped at its next poll; one that
\* was never polled never runs.
CommandAborted(s) ==
    /\ ses[s].cmd = "aborting"
    /\ Set(s, [ses[s] EXCEPT !.cmd = "aborted"])
    /\ UNCHANGED <<status, ext, rootOk>>

\* The node's result dropped, as `let _ = node.await` does.
NodeResultDiscarded(n) == "Ok"

\* `node.await?` and `res?` of the node future.
NodeResult(n) == IF n = "err" THEN "ErrNodeTerm" ELSE "Ok"

\* `res??` of the command task.
CommandResult(c) ==
    CASE c = "Ok"    -> "Ok"
      [] c = "Err"   -> "ErrCommand"
      [] c = "Panic" -> "ErrJoin"

\* select! resolves and runs its branch up to the next await.
Race(s) ==
    /\ ses[s].pc = "race"
    /\ LET ready == ReadySources(ses[s])
           b == SelectBiased(ready)
           r == [ses[s] EXCEPT !.branch = b]
       IN  /\ b # 0
           /\ CASE b = 1 ->
                     Set(s, [r EXCEPT !.pc = "int_wait",
                                      !.cmd = Abort(r.cmd),
                                      !.shutdown = TRUE,
                                      !.ops = <<"abort", "shutdown">>])
                [] b = 2 ->
                     Set(s, [r EXCEPT !.pc = "cmd_wait",
                                      !.shutdown = TRUE,
                                      !.ops = <<"shutdown">>])
                [] b = 3 ->
                     Set(s, [r EXCEPT !.pc = "cleanup",
                                      !.cmd = Abort(r.cmd),
                                      !.ops = <<"abort">>,
                                      !.res = NodeResult(r.node)])
    /\ UNCHANGED <<status, ext, rootOk>>

\* The ctrl_c branch returning without awaiting the node.
InterruptBranchNoWait(s) ==
    /\ ses[s].pc = "int_wait"
    /\ Set(s, [ses[s] EXCEPT !.pc = "cleanup",
                             !.res = NodeResult(ses[s].node)])
    /\ UNCHANGED <<status, ext, rootOk>>

\* The ctrl_c branch: `node.await?` returns.
InterruptBranchEnds(s) ==
    /\ ses[s].pc = "int_wait"
    /\ ses[s].node \in Terminated
    /\ Set(s, [ses[s] EXCEPT !.pc = "cleanup",
                             !.res = NodeResult(ses[s].node)])
    /\ UNCHANGED <<status, ext, rootOk>>

\* The command branch with `node.await?`: the node's error comes first.
CommandBranchPropagatesNode(s) ==
    /\ ses[s].pc = "cmd_wait"
    /\ ses[s].node \in Terminated
    /\ Set(s, [ses[s] EXCEPT !.pc = "cleanup",
                             !.res = IF ses[s].node = "err"
                                       THEN "ErrNodeTerm"
                                       ELSE CommandResult(ses[s].cmd)])
    /\ UNCHANGED <<status, ext, rootOk>>

\* The command branch: `let _ = node.await` returns, then `res??`.
CommandBranchEnds(s) ==
    /\ ses[s].pc = "cmd_wait"
    /\ ses[s].node \in Terminated
    /\ Set(s, [ses[s] EXCEPT !.pc = "cleanup",
                             !.res = CommandResult(ses[s].cmd)])
    /\ UNCHANGED <<status, ext, rootOk>>

\* RpcStatus::clear: the record is removed.
RpcStatusClear == status' = Stopped

\* run_with_command: what it returns when clear returned `cleared`.
Returned(res, cleared) == IF cleared = "ok" THEN res ELSE "ErrClear"

\* run_with_command with `?` on the result of run_with_command_inner: an
\* Err returns at once, before clear.
CleanupUnlessErr(s) ==
    /\ ses[s].pc = "cleanup"
    /\ IF ~rootOk \/ ses[s].res # "Ok"
         THEN /\ Set(s, [ses[s] EXCEPT !.pc = "done",
                                       !.ret = IF ses[s].res = "Ok"
                                                 THEN "ErrDataRoot"
                                                 ELSE ses[s].res])
              /\ UNCHANGED status
         ELSE \/ /\ RpcStatusClear
                 /\ Set(s, [ses[s] EXCEPT !.pc = "done",
                                          !.clears = @ + 1,
                                          !.clearRes = "ok",
                                          !.ret = Returned(ses[s].res, "ok")])
              \/ /\ UNCHANGED status
                 /\ Set(s, [ses[s] EXCEPT !.pc = "done",
                                          !.clears = @ + 1,
                                          !.clearRes = "fail",
                                          !.ret = Returned(ses[s].res, "fail")])
    /\ UNCHANGED <<ext, rootOk>>

\* run_with_command after run_with_command_inner:
\* `RpcStatus::clear(iroh_data_root()?).await?; res`
Cleanup(s) ==
    /\ ses[s].pc = "cleanup"
    /\ IF ~rootOk
         THEN /\ Set(s, [ses[s] EXCEPT !.pc = "done", !.ret = "ErrDataRoot"])
              /\ UNCHANGED status
         ELSE \/ /\ RpcStatusClear
                 /\ Set(s, [ses[s] EXCEPT !.pc = "done",
                                          !.clears = @ + 1,
                                          !.clearRes = "ok",
                                          !.ret = Returned(ses[s].res, "ok")])
              \/ /\ UNCHANGED status
                 /\ Set(s, [ses[s] EXCEPT !.pc = "done",
                                          !.clears = @ + 1,
                                          !.clearRes = "fail",
                                          !.ret = Returned(ses[s].res, "fail")])
    /\ UNCHANGED <<ext, rootOk>>

\* The process is free to call run_with_command again.
Restart(s) ==
    /\ ses[s].pc = "done"
    /\ Set(s, Idle)
    /\ UNCHANGED <<status, ext, rootOk>>

\* A step of process s.
Step(s) ==
    \/ Start(s)
    \/ Config(s)
    \/ Load(s)
    \/ Dirs(s)
    \/ Key(s)
    \/ Bind(s)
    \/ BindPortZero(s)
    \/ Store(s)
    \/ Spawn(s)
    \/ CommandStarts(s)
    \/ CommandReturns(s)
    \/ CommandAborted(s)
    \/ NodeTerminates(s)
    \/ Interrupt(s)
    \/ Race(s)
    \/ InterruptBranchEnds(s)
    \/ CommandBranchEnds(s)
    \/ Cleanup(s)
    \/ Restart(s)

Next == \E s \in Sess : Step(s)

Spec == Init /\ [][Next]_vars

\* A launch that has read the record and has not yet written it.
BetweenLoadAndStore(r) == r.pc \in {"dirs", "key", "bind", "bind0", "store"}

\* The status check of process s does not fall between the load and the
\* store of another launch.
NonOverlapping(s) ==
    ses[s].pc = "load" => \A t \in Sess \ {s} : ~BetweenLoadAndStore(ses[t])

\* A step of process s whose status check, if it is one, does not overlap.
SeqStep(s) ==
    \/ Start(s)
    \/ Config(s)
    \/ NonOverlapping(s) /\ Load(s)
    \/ Dirs(s)
    \/ Key(s)
    \/ Bind(s)
    \/ BindPortZero(s)
    \/ Store(s)
    \/ Spawn(s)
    \/ CommandStarts(s)
    \/ CommandReturns(s)
    \/ CommandAborted(s)
    \/ NodeTerminates(s)
    \/ Interrupt(s)
    \/ Race(s)
    \/ InterruptBranchEnds(s)
    \/ CommandBranchEnds(s)
    \/ Cleanup(s)
    \/ Restart(s)

SeqNext == \E s \in Sess : SeqStep(s)

\* The sessions whose launches do not overlap.
SeqSpec == Init /\ [][SeqNext]_vars

\* The runtime polls select! once a source is ready, resumes a branch once
\* the awaited node future has completed, and clear returns; a node whose
\* shutdown was requested terminates.
Fairness(s) ==
    /\ WF_vars(Race(s))
    /\ WF_vars(InterruptBranchEnds(s))
    /\ WF_vars(CommandBranchEnds(s))
    /\ WF_vars(Cleanup(s))
    /\ WF_vars(ses[s].shutdown /\ NodeTerminates(s))

\* The sessions of one process, the other never started, under that
\* scheduling.
FairSpec == Init /\ [][Step("a")]_vars /\ Fairness("a")

(***************************************************************************)
(* Properties                                                              *)
(***************************************************************************)

\* The step in which run_with_command of process s returns.
Returns(s) == ses[s].pc = "cleanup" /\ ses'[s].pc = "done"

\* C1 as stated: whenever run_with_command returns, whatever the exit path,
\* the persisted record is Stopped (absent).
C1_StoppedOnEveryReturn ==
    [][\A s \in Sess : Returns(s) => status' = Stopped]_vars

\* C1, amended: whenever run_with_command returns, whatever the exit path,
\* the persisted record is Stopped (absent), unless clear itself returned
\* an error.
C1_StoppedOnReturn ==
    [][\A s \in Sess :
          (Returns(s) /\ ses'[s].clearRes # "fail") => status' = Stopped]_vars

\* A launch that failed in node construction, after the status was stored,
\* has returned and left no record.
C1_Witness ==
    \E s \in Sess :
       /\ ses[s].pc = "done" /\ ses[s].res = "ErrNode"
       /\ ses[s].clearRes = "ok" /\ status = Stopped

C3_ClearExactlyOnce ==
    \A s \in Sess :
       /\ ses[s].pc = "done" => ses[s].clears = 1
       /\ ses[s].pc # "done" => ses[s].clears = 0

\* C4 as stated: what run_with_command returns is the result of
\* run_with_command_inner (the outcome of the race, or the launch failure).
C4_ResultIsInnerResult ==
    \A s \in Sess : ses[s].pc = "done" => ses[s].ret = ses[s].res

\* The command task's result plays no part in the result of the session.
Abandoned(r) ==
    /\ r.cmd \notin {"spawned", "running", "pending"}
    /\ r.res \in {"Ok", "ErrNodeTerm"}

\* C5 as stated: a session that got an interrupt at any point after it
\* entered Running returns having abandoned the command task and requested
\* node shutdown, with the persisted record Stopped.
C5_AnyInterrupt ==
    [][\A s \in Sess :
          (Returns(s) /\ ses[s].intr # "none")
             => /\ ses[s].branch = 1
                /\ ses[s].shutdown
                /\ Abandoned(ses[s])
                /\ status' = Stopped]_vars

\* C5, amended: an interrupt delivered while the race is still pending
\* always leads to the return of the session through the interrupt branch:
\* the command task abandoned, node shutdown requested, and the persisted
\* record Stopped unless clear returned an error.
C5_InterruptWins ==
    \A s \in Sess :
       (ses[s].intr = "race" /\ ses[s].pc # "done")
          ~> /\ ses[s].pc = "done"
             /\ ses[s].branch = 1
             /\ ses[s].shutdown
             /\ Abandoned(ses[s])
             /\ ses[s].clearRes = "ok" => status = Stopped

\* An interrupt arrived after the command task had completed and before
\* select! was polled; the session has returned through the interrupt
\* branch.
C5_Witness ==
    \E s \in Sess :
       /\ ses[s].pc = "done" /\ ses[s].intr = "race" /\ ses[s].branch = 1
       /\ ses[s].cmd \in Completed /\ ses[s].shutdown
       /\ ses[s].clearRes = "ok" /\ status = Stopped

\* C6: in UntilStopped mode, once the command has returned Ok the command
\* task never completes, the command branch never fires, and a session
\* that ends does so through the interrupt branch or the node branch.
C6_UntilStoppedOutlivesCommand ==
    \A s \in Sess :
       (ses[s].run_type = UntilStopped /\ ses[s].cmdOut = "Ok")
          => /\ ses[s].cmd \notin Completed
             /\ ses[s].branch # 2
             /\ ses[s].pc \notin {"cmd_wait"}
             /\ ses[s].pc \in {"cleanup", "done"} => ses[s].branch \in {1, 3}

\* An UntilStopped session whose command had returned Ok has ended, through
\* the node branch.
C6_Witness ==
    \E s \in Sess :
       /\ ses[s].run_type = UntilStopped /\ ses[s].cmdOut = "Ok"
       /\ ses[s].pc = "done" /\ ses[s].branch = 3

\* C7 as stated: a SingleCommand session whose command returned Ok, and
\* that got no interrupt, returns Ok (whatever the node's termination
\* yields) with the persisted record Stopped.
C7_SingleCommandSuccess ==
    [][\A s \in Sess :
          (Returns(s) /\ ses[s].run_type = SingleCommand
             /\ ses[s].cmdOut = "Ok" /\ ses[s].intr = "none")
          => (ses'[s].ret = "Ok" /\ status' = Stopped)]_vars

\* C8 as stated: when the bind of the preferred port fails with
\* address-in-use the launch succeeds, and the port it stores is the port
\* it bound, never the preferred one.
C8_LaunchSucceedsOnOtherPort ==
    \A s \in Sess :
       ses[s].bindErr = "inuse"
          => /\ ses[s].pc \notin {"cleanup", "done"}
             /\ ses[s].stored # 0
                  => /\ ses[s].stored = ses[s].bound
                     /\ ses[s].stored # ses[s].rpc_port

\* C8, amended: when the bind of the preferred port fails with
\* address-in-use, the launch does not fail on that error but binds port 0;
\* the port it then stores is the port actually bound, and as long as the
\* preferred port is still in use at the second bind that port is not the
\* preferred one.
C8_FallbackPort ==
    [][\A s \in Sess :
          /\ ses'[s].bindErr = "inuse"
               => /\ ses'[s].res # "ErrBind"
                  /\ ses'[s].pc # "bind0" => ses'[s].binds = 2
                  /\ ses'[s].prefHeld => ses'[s].stored # ses'[s].rpc_port
          /\ (ses[s].pc = "store" /\ ses'[s].pc = "spawn"
                /\ ses[s].bindErr = "inuse")
               => /\ status' = ses[s].bound
                  /\ ses'[s].stored = ses[s].bound
                  /\ ses[s].bound \in EphemeralPorts
                  /\ ses[s].prefHeld => status' # ses[s].rpc_port]_vars

\* The preferred port was in use at both binds; the launch has stored
\* Running(e) for the other port e it bound.
C8_Witness ==
    \E s \in Sess :
       /\ ses[s].pc = "spawn" /\ ses[s].bindErr = "inuse" /\ ses[s].prefHeld
       /\ ses[s].bound # ses[s].rpc_port
       /\ ses[s].stored = ses[s].bound /\ status = ses[s].bound

\* C9: when the bind of the preferred port fails for another reason than
\* address-in-use there is no second bind, the launch has failed with that
\* error, and no step of the session writes a Running record.
C9_OtherBindErrorFatal ==
    [][\A s \in Sess :
          ses'[s].bindErr = "other"
             => /\ ses'[s].binds = 1
                /\ ses'[s].pc \in {"cleanup", "done"}
                /\ ses'[s].res = "ErrBind"
                /\ ses'[s].stored = 0 /\ ses'[s].bound = 0
                /\ ses'[s].node = "none"
                /\ ses'[s] # ses[s] => status' \in {status, Stopped}]_vars

\* A launch has failed on such an error and run_with_command has returned.
C9_Witness ==
    \E s \in Sess :
       /\ ses[s].bindErr = "other" /\ ses[s].pc = "done"
       /\ ses[s].ret = "ErrBind"

\* C10: the race of a session resolves once, on one branch: the interrupt
\* branch if an interrupt is pending at the poll, else the command branch
\* if the command task has completed, else the node branch, the node then
\* having terminated.
C10_OneBranchByPriority ==
    [][\A s \in Sess :
          /\ (ses[s].branch # 0 /\ ses'[s].pc # "idle")
               => ses'[s].branch = ses[s].branch
          /\ (ses[s].pc = "race" /\ ses'[s].pc # "race")
               => /\ ses'[s].branch \in {1, 2, 3}
                  /\ ses'[s].branch = 1 <=> ses[s].intr = "race"
                  /\ ses'[s].branch = 2 <=>
                        (ses[s].intr # "race"
                           /\ ses[s].cmd \in {"Ok", "Err", "Panic"})
                  /\ ses'[s].branch = 3 =>
                        ses[s].node \in {"ok", "err"}
          /\ ses'[s].pc \in {"int_wait", "cmd_wait"} => ses'[s].branch # 0
          /\ ses'[s].pc = "race" => ses'[s].branch = 0]_vars

\* All three sources were ready at the poll and the interrupt branch fired.
C10_Witness ==
    \E s \in Sess :
       /\ ses[s].pc = "int_wait" /\ ses[s].branch = 1
       /\ ses[s].cmd \in Completed /\ ses[s].node \in Terminated

\* C11 as stated: while the node of a session is live and the race has not
\* yet resolved, the persisted record is Running(p), p the port that
\* session's rpc endpoint is bound to, whatever launches other processes
\* have attempted meanwhile.
C11_RunningWhileLive ==
    \A s \in Sess :
       (ses[s].pc = "race" /\ ses[s].node = "running")
          => (status # Stopped /\ status = ses[s].bound)

\* The sessions whose node is live.
Live == {s \in Sess : ses[s].node = "running"}

\* C12 as stated: when no status check falls between another launch's load
\* and store, at most one session has a live node, and a launch that is
\* past its status check has found no other session's node live.
C12_NoDoubleStart ==
    /\ Cardinality(Live) <= 1
    /\ \A s \in Sess :
          (BetweenLoadAndStore(ses[s]) \/ ses[s].pc = "spawn")
             => Live \subseteq {s}

\* A task that has completed or has been dropped after its abort.
TaskTerminal == Completed \cup {"aborted"}

\* C13 as stated: when clear runs after the race, in every branch, both the
\* command task and the node have reached a terminal state.
C13_AllTerminalBeforeClear ==
    [][\A s \in Sess :
          (Returns(s) /\ ses[s].branch # 0)
             => /\ ses[s].cmd \in TaskTerminal
                /\ ses[s].node \in Terminated]_vars

\* C13, amended: when clear runs after the race, in every branch, the node
\* has terminated, and the command task has completed or its abort has
\* been requested (it need not have stopped); when clear runs after a
\* failed launch there is neither a node nor a command task.
C13_NodeTerminalBeforeClear ==
    [][\A s \in Sess :
          Returns(s)
             => IF ses[s].branch # 0
                  THEN /\ ses[s].node \in Terminated
                       /\ ses[s].cmd \in TaskTerminal \cup {"aborting"}
                       /\ ses[s].branch = 2 => ses[s].cmd \in Completed
                  ELSE ses[s].node = "none" /\ ses[s].cmd = "none"]_vars

\* Clear has run after the interrupt branch while the command task, whose
\* abort was requested while it ran, has not stopped yet.
C13_Witness ==
    \E s \in Sess :
       /\ ses[s].pc = "done" /\ ses[s].branch = 1 /\ ses[s].clearRes = "ok"
       /\ ses[s].cmd = "aborting" /\ ses[s].calls = 1
       /\ ses[s].node \in Terminated

\* C14: when the interrupt branch wins the race, abort of the command task
\* is issued and then node shutdown is requested; the session stays in the
\* branch until the node has terminated; the outcome of the race is an
\* error iff the node's termination yielded one, and the command task's
\* result is neither the outcome of the race nor what the session returns.
C14_InterruptBranch ==
    [][\A s \in Sess :
          /\ (ses[s].pc = "race" /\ ses'[s].branch = 1)
               => /\ ses'[s].ops = <<"abort", "shutdown">>
                  /\ ses'[s].cmd \notin {"spawned", "running", "pending"}
                  /\ ses'[s].shutdown
                  /\ ses'[s].pc = "int_wait"
          /\ (ses[s].pc = "int_wait" /\ ses'[s].pc # "int_wait")
               => /\ ses[s].node \in Terminated
                  /\ ses'[s].pc = "cleanup"
                  /\ ses'[s].res = "ErrNodeTerm" <=> ses[s].node = "err"
                  /\ ses'[s].res = "Ok" <=> ses[s].node = "ok"
          /\ (ses[s].branch = 1 /\ Returns(s))
               => /\ ses'[s].res = ses[s].res
                  /\ ses'[s].ret \notin {"ErrCommand", "ErrJoin"}]_vars

\* The interrupt branch won over a command task that had failed; the node
\* terminated with an error, which is the outcome of the race.
C14_Witness ==
    \E s \in Sess :
       /\ ses[s].pc = "cleanup" /\ ses[s].branch = 1
       /\ ses[s].cmd = "Err" /\ ses[s].node = "err"
       /\ ses[s].res = "ErrNodeTerm"
       /\ ses[s].ops = <<"abort", "shutdown">>

\* C15: when the command branch wins the race, node shutdown is requested
\* and nothing is aborted; the session stays in the branch until the node
\* has terminated; the outcome of the race is the command task's result
\* (Ok, the command's error, or the join error of a panicked task),
\* whatever the node's termination yielded.
C15_CommandBranch ==
    [][\A s \in Sess :
          /\ (ses[s].pc = "race" /\ ses'[s].branch = 2)
               => /\ ses'[s].ops = <<"shutdown">>
                  /\ ses'[s].shutdown
                  /\ ses'[s].cmd = ses[s].cmd
                  /\ ses'[s].pc = "cmd_wait"
          /\ (ses[s].pc = "cmd_wait" /\ ses'[s].pc # "cmd_wait")
               => /\ ses[s].node \in Terminated
                  /\ ses'[s].pc = "cleanup"
                  /\ ses[s].cmd = "Ok" => ses'[s].res = "Ok"
                  /\ ses[s].cmd = "Err" => ses'[s].res = "ErrCommand"
                  /\ ses[s].cmd = "Panic" => ses'[s].res = "ErrJoin"
                  /\ ses[s].cmd \in Completed]_vars

\* The command branch won, the command had succeeded and the node ended
\* with an error: the outcome of the race is Ok.
C15_Witness ==
    \E s \in Sess :
       /\ ses[s].pc = "cleanup" /\ ses[s].branch = 2
       /\ ses[s].cmd = "Ok" /\ ses[s].node = "err" /\ ses[s].res = "Ok"

\* C16: when the node branch wins the race, the node having terminated on
\* its own, abort of the command task is issued, no shutdown is requested
\* in that session, the outcome of the race is the node's termination
\* result, and the command's result is neither that outcome nor what the
\* session returns.
C16_NodeBranch ==
    [][\A s \in Sess :
          /\ (ses[s].pc = "race" /\ ses'[s].branch = 3)
               => /\ ses[s].node \in Terminated
                  /\ ses'[s].ops = <<"abort">>
                  /\ ses'[s].cmd = "aborting"
                  /\ ses'[s].pc = "cleanup"
                  /\ ses'[s].res = "ErrNodeTerm" <=> ses[s].node = "err"
                  /\ ses'[s].res = "Ok" <=> ses[s].node = "ok"
          /\ ses'[s].branch = 3 => ~ses'[s].shutdown
          /\ (ses[s].branch = 3 /\ Returns(s))
               => /\ ses'[s].res = ses[s].res
                  /\ ses'[s].ret \notin {"ErrCommand", "ErrJoin"}]_vars

\* The node of an UntilStopped session, whose command had returned Ok,
\* ended with an error on its own; that error is the outcome of the race.
C16_Witness ==
    \E s \in Sess :
       /\ ses[s].pc = "cleanup" /\ ses[s].branch = 3
       /\ ses[s].run_type = UntilStopped /\ ses[s].cmdOut = "Ok"
       /\ ses[s].cmd = "aborting" /\ ~ses[s].shutdown
       /\ ses[s].node = "err" /\ ses[s].res = "ErrNodeTerm"

\* C17 as stated: a command that returns an error completes the command
\* task at once in either run mode; if no interrupt is pending when
\* select! is polled the command branch fires, and the session returns the
\* command's error.
C17_CommandFailure ==
    [][\A s \in Sess :
          /\ (ses[s].cmd = "running" /\ ses'[s].cmdOut = "Err")
               => ses'[s].cmd = "Err"
          /\ (ses[s].pc = "race" /\ ses'[s].pc # "race"
                /\ ses[s].cmd = "Err" /\ ses[s].intr # "race")
               => ses'[s].branch = 2
          /\ (ses[s].pc = "cmd_wait" /\ ses'[s].pc # "cmd_wait"
                /\ ses[s].cmd = "Err")
               => ses'[s].res = "ErrCommand"
          /\ (Returns(s) /\ ses[s].branch = 2 /\ ses[s].cmd = "Err")
               => ses'[s].ret = "ErrCommand"]_vars

\* The positions a launch may move to from each position.
LaunchOrder ==
    [ config |-> {"load"},  load  |-> {"dirs"},          dirs  |-> {"key"},
      key    |-> {"bind"},  bind  |-> {"bind0", "store"}, bind0 |-> {"store"},
      store  |-> {"spawn"}, spawn |-> {"race"} ]

\* The launch failures that happen before a bind has succeeded.
NoEndpointBound ==
    {"ErrConfig", "ErrDataRoot", "AlreadyRunning", "ErrStorage",
     "ErrIdentity", "ErrServerConfig", "ErrBind", "ErrBindPortZero"}

\* C18: a launch goes through status check, directories and stores,
\* identity, bind (and second bind), status store, node construction, in
\* that order, or fails; a Running record is written only by a launch that
\* holds a bound endpoint, with that endpoint's port, and before its node
\* is constructed; a launch that fails without a successful bind has
\* stored nothing.
C18_LaunchOrder ==
    [][/\ \A s \in Sess :
            /\ (ses[s].pc \in DOMAIN LaunchOrder /\ ses'[s].pc # ses[s].pc)
                 => ses'[s].pc \in LaunchOrder[ses[s].pc] \cup {"cleanup"}
            /\ ses'[s].dirs => ses'[s].pc \notin {"config", "load"}
            /\ (ses[s].node = "none" /\ ses'[s].node # "none")
                 => /\ ses[s].pc = "spawn"
                    /\ ses[s].stored # 0 /\ ses[s].stored = ses[s].bound
            /\ ses'[s].res \in NoEndpointBound
                 => /\ ses'[s].stored = 0
                    /\ ses'[s] # ses[s] => status' \in {status, Stopped}
       /\ (status' # status /\ status' # Stopped)
            => \E s \in Sess :
                  /\ ses[s].pc = "store" /\ ses'[s].pc = "spawn"
                  /\ ses[s].bound # 0 /\ status' = ses[s].bound
                  /\ ses[s].node = "none"]_vars

\* A launch has checked the status, made its directories, bound its
\* endpoint and stored the port; its node is not constructed yet.
C18_Witness ==
    \E s \in Sess :
       /\ ses[s].pc = "spawn" /\ ses[s].dirs /\ ses[s].binds = 1
       /\ ses[s].bound # 0 /\ ses[s].stored = ses[s].bound
       /\ status = ses[s].stored /\ ses[s].node = "none"

\* The positions of a session whose launch has not succeeded (yet).
InLaunch(r) ==
    \/ r.pc \in DOMAIN LaunchOrder
    \/ r.pc \in {"cleanup", "done"} /\ r.branch = 0

\* C19 as stated: while a launch runs and after it has failed there is no
\* command task and the command has not been invoked; a session whose
\* launch succeeded has invoked the command exactly once when it returns,
\* and only with the node constructed.
C19_InvokedExactlyOnce ==
    \A s \in Sess :
       /\ InLaunch(ses[s]) => (ses[s].cmd = "none" /\ ses[s].calls = 0)
       /\ ses[s].calls > 0 => ses[s].node # "none"
       /\ (ses[s].pc = "done" /\ ses[s].branch # 0) => ses[s].calls = 1

\* C19, amended: while a launch runs and after it has failed there is no
\* command task and the command has not been invoked; in a session whose
\* launch succeeded the command is invoked at most once, only with the
\* node constructed, and exactly once unless the interrupt branch or the
\* node branch aborted the command task before it was first polled.
C19_InvokedAtMostOnce ==
    \A s \in Sess :
       /\ InLaunch(ses[s]) => (ses[s].cmd = "none" /\ ses[s].calls = 0)
       /\ ses[s].calls \in {0, 1}
       /\ ses[s].calls > 0 => ses[s].node # "none"
       /\ ses[s].cmd \in {"running", "pending"} \cup Completed
            => ses[s].calls = 1
       /\ (~InLaunch(ses[s]) /\ ses[s].pc # "idle" /\ ses[s].calls = 0)
            => \/ ses[s].cmd = "spawned" /\ ses[s].pc = "race"
               \/ /\ ses[s].cmd \in {"aborting", "aborted"}
                  /\ ses[s].branch \in {1, 3}
                  /\ ses[s].cmdOut = "none"

\* A session whose launch succeeded has returned without the command ever
\* being invoked: the node ended before the command task was first polled.
C19_Witness ==
    \E s \in Sess :
       /\ ses[s].pc = "done" /\ ses[s].branch = 3 /\ ses[s].calls = 0
       /\ ses[s].cmd \in {"aborting", "aborted"}

\* C20: a launch binds at most twice, first the requested port; it binds a
\* second time only after the first bind failed with address-in-use, and
\* then asks for port 0; when the second bind fails the launch has failed
\* with that error, without a third bind and without having stored a
\* Running record.
C20_AtMostTwoBinds ==
    [][\A s \in Sess :
          /\ ses'[s].binds \in {0, 1, 2}
          /\ ses'[s].binds = Len(ses'[s].asked)
          /\ ses'[s].binds >= 1 => ses'[s].asked[1] = ses'[s].rpc_port
          /\ ses'[s].binds = 2
               => ses'[s].bindErr = "inuse" /\ ses'[s].asked[2] = 0
          /\ (ses[s].pc = "bind0" /\ ses'[s].pc # "bind0")
               => \/ ses'[s].pc = "store" /\ ses'[s].bound \in Ports
                  \/ /\ ses'[s].pc = "cleanup"
                     /\ ses'[s].res = "ErrBindPortZero"
                     /\ ses'[s].bound = 0 /\ ses'[s].stored = 0
                     /\ status' = status
          /\ ses'[s].res = "ErrBindPortZero"
               => /\ ses'[s].binds = 2 /\ ses'[s].stored = 0
                  /\ ses'[s].pc \in {"cleanup", "done"}
                  /\ ses'[s] # ses[s] => status' \in {status, Stopped}]_vars

\* The requested port was in use and the bind of port 0 failed too: the
\* launch has failed after two binds, nothing stored.
C20_Witness ==
    \E s \in Sess :
       /\ ses[s].pc = "cleanup" /\ ses[s].res = "ErrBindPortZero"
       /\ ses[s].bindErr = "inuse" /\ ses[s].asked = <<ses[s].rpc_port, 0>>
       /\ ses[s].stored = 0 /\ ses[s].bound = 0

====
